---------------------------- MODULE Spec2Model ----------------------------
(***************************************************************************)
(* Model of the virtual TCP layer of the relay client                      *)
(* (client/src/virtual_layer.rs): the NodeId <-> virtual IP indices, the   *)
(* per-peer outbound channels and their forwarding tasks, the pause cell,  *)
(* the ingress and egress routers, and the pure derivation to_ipv6; and of *)
(* the SSE fan-out of the relay server (server/src/sse.rs).                *)
(*                                                                         *)
(* Scheduling: every task runs on one cooperative executor                 *)
(* (tokio::task::spawn_local), so the code between two .await points is    *)
(* one atomic action.  The state lock is never held across a suspension,   *)
(* so a critical section is always inside one action.                      *)
(*                                                                         *)
(* Channel semantics (futures 0.3 mpsc, used by the source through         *)
(* mpsc::channel, SinkExt::close and StreamExt::next):                     *)
(*   - Receiver::next yields None only when the queue is empty and either  *)
(*     no Sender handle is left or the receiver closed the channel;        *)
(*   - Sender::clone adds a handle; dropping a handle removes one;         *)
(*   - SinkExt::close on a Sender disconnects that one handle only;        *)
(*   - a send is accepted while the handle is not parked, and parks the    *)
(*     handle when the queue then holds more than `buffer` messages.       *)
(***************************************************************************)
EXTENDS Integers, Sequences, FiniteSets, TLC

(***************************************************************************)
(* Bounds of the model.                                                    *)
(***************************************************************************)
\* connect calls made in one behaviour
MaxConns == 1
\* the clock runs 0..MaxTime
MaxTime == 3
\* engine events emitted in one behaviour
MaxEvents == 3
\* longest byte string given to to_ipv6
MaxIdLen == 20
\* connect calls made in one behaviour with the pause cell in use
MaxPauseConns == 2
\* spawn calls made in one behaviour
MaxSpawns == 3
\* payloads each peer of a pair writes in one behaviour
MaxWrites == 1
\* connect calls made in one behaviour for one NodeId
MaxSameConns == 2
\* add_client calls made in one behaviour
MaxClients == 2
\* broadcast calls made in one behaviour
MaxBroadcasts == 10

(***************************************************************************)
(* Program constants.                                                      *)
(***************************************************************************)
\* const IPV6_ADDRESS_LEN: usize = 16
IPV6_ADDRESS_LEN == 16
\* const TCP_BIND_PORT: u16 = 1
TCP_BIND_PORT == 1
\* mpsc::channel::<Vec<u8>>(1)
ChanBuffer == 1
\* mpsc::channel(10) in SseClients::add_client
SseBuffer == 10

(***************************************************************************)
(* Finite maps (HashMap) as functions with a growing domain.  Every value  *)
(* kept in the state is built with @@, EXCEPT or a sequence operator, so   *)
(* that it is an explicit function, not a function expression that is      *)
(* evaluated on demand.                                                    *)
(***************************************************************************)
Min(a, b) == IF a <= b THEN a ELSE b

EmptyMap == <<>>

\* the function f as an explicit function
Explicit(f) == f @@ EmptyMap

\* HashMap::insert: the value at k is replaced
Put(f, k, v) == (k :> v) @@ f

\* HashMap::remove
Del(f, k) == Explicit([x \in (DOMAIN f) \ {k} |-> f[x]])

Zeros(k) == Explicit([i \in 1..k |-> 0])

(***************************************************************************)
(* to_ipv6: the virtual IP of a byte string.                               *)
(***************************************************************************)
\* mutant: the multicast reduction is left out
to_ipv6_no_mod(bytes) ==
    LET len == Min(IPV6_ADDRESS_LEN, Len(bytes))
        ipv6_bytes == Explicit([i \in 1..IPV6_ADDRESS_LEN |-> IF i <= len THEN bytes[i] ELSE 0])
    IN  IF (\A i \in 1..15 : ipv6_bytes[i] = 0) /\ ipv6_bytes[16] < 2
        THEN [ipv6_bytes EXCEPT ![16] = 2]
        ELSE ipv6_bytes

\* mutant: the unspecified/localhost test looks at byte 15 only
to_ipv6_last_only(bytes) ==
    LET len == Min(IPV6_ADDRESS_LEN, Len(bytes))
        copied == Explicit([i \in 1..IPV6_ADDRESS_LEN |-> IF i <= len THEN bytes[i] ELSE 0])
        ipv6_bytes == [copied EXCEPT ![1] = @ % 255]
    IN  IF ipv6_bytes[16] < 2
        THEN [ipv6_bytes EXCEPT ![16] = 2]
        ELSE ipv6_bytes

\* mutant: one byte fewer is copied from the source
to_ipv6_short_copy(bytes) ==
    LET len == Min(IPV6_ADDRESS_LEN - 1, Len(bytes))
        copied == Explicit([i \in 1..IPV6_ADDRESS_LEN |-> IF i <= len THEN bytes[i] ELSE 0])
        ipv6_bytes == [copied EXCEPT ![1] = @ % 255]
    IN  IF (\A i \in 1..15 : ipv6_bytes[i] = 0) /\ ipv6_bytes[16] < 2
        THEN [ipv6_bytes EXCEPT ![16] = 2]
        ELSE ipv6_bytes

to_ipv6(bytes) ==
    LET len == Min(IPV6_ADDRESS_LEN, Len(bytes))
        \* copy source bytes into a zeroed array
        copied == Explicit([i \in 1..IPV6_ADDRESS_LEN |-> IF i <= len THEN bytes[i] ELSE 0])
        \* no multicast addresses: ipv6_bytes[0] %= 0xff
        ipv6_bytes == [copied EXCEPT ![1] = @ % 255]
    IN  \* no unspecified or localhost addresses
        IF (\A i \in 1..15 : ipv6_bytes[i] = 0) /\ ipv6_bytes[16] < 2
        THEN [ipv6_bytes EXCEPT ![16] = 2]
        ELSE ipv6_bytes

(***************************************************************************)
(* NodeIds: 20-byte identifiers.  NodeA and NodeB differ in their last     *)
(* byte only; NodeC differs from both in its first byte.                   *)
(***************************************************************************)
NodeIdBytes(first, last) ==
    Explicit([i \in 1..20 |-> IF i = 1 THEN first ELSE IF i = 20 THEN last ELSE 0])

NodeA == NodeIdBytes(10, 1)

NodeB == NodeIdBytes(10, 2)

NodeC == NodeIdBytes(254, 1)

NodeIds == {NodeA, NodeB, NodeC}

\* registry::NodeEntry: what add_virt_node, connect and receive are given
NodeEntry(id, session, slot) == [id |-> id, session |-> session, slot |-> slot]

\* the entries the session layer hands out: NodeA with either session
NodeEntries ==
    {NodeEntry(NodeA, "S1", 7), NodeEntry(NodeA, "S2", 9),
     NodeEntry(NodeB, "S1", 7), NodeEntry(NodeC, "S1", 7)}

Payloads == {1}

\* VirtNode::try_new
VirtNode_try_new(id, session, session_slot) ==
    [id |-> id,
     endpoint |-> [addr |-> to_ipv6(id), port |-> TCP_BIND_PORT],
     session |-> session,
     session_slot |-> session_slot]

(***************************************************************************)
(* State.                                                                  *)
(***************************************************************************)
VARIABLES
    \* TcpLayerState.nodes: virtual IP -> VirtNode
    nodes,
    \* TcpLayerState.ips: NodeId -> virtual IP
    ips,
    \* TcpLayerState.forward_senders: NodeId -> the stored Sender clone,
    \* named by the connection whose channel it belongs to
    forward_senders,
    \* one record per connect call, in call order
    conns,
    \* a receive call suspended between resolve_node and add_virt_node
    rcv,
    \* paused_forwarding: {} is None, {t} is Some(t)
    paused,
    \* Utc::now()
    now,
    \* the engine's ingress event stream, not yet taken by the router
    ingress_rx,
    \* TcpLayerState.ingress: the application channel and whether its
    \* receiver is still there
    ingress_app,
    ingress_open,
    \* number of engine events emitted so far
    emitted,
    \* history: the events the engine has yielded, in order, where they are
    \* recorded
    yielded,
    \* history, read by the properties only: the step just taken, when it
    \* was an add_virt_node (by the application, connect or receive) or a
    \* remove_node (by the application or a forwarding task) or a shutdown
    last,
    \* to_ipv6 applied to two byte strings
    ipIn1, ipIn2, ipOut1, ipOut2,
    \* the engine (Network): whether its one-shot ingress and egress
    \* receivers are still there, and the endpoints bound
    net,
    \* the router tasks started by spawn
    routers,
    \* history: the result of every spawn call, in call order
    spawns,
    \* two layers joined by the session layer: NodeId -> the state of the
    \* layer of that peer
    peers,
    \* the engine's egress event stream, not yet taken by the egress router
    egress_rx,
    \* the Forward the egress router has given to node.session.send and
    \* whose send has not returned: <<>> or <<forward>>
    egress_cur,
    \* history: the session sends that have returned, in order, each with
    \* its result
    session_sends,
    \* SseClients.clients: one record per add_client call, in call order,
    \* with the channel of that client, whether its stream is still there,
    \* and (history) the first event the stream yielded
    sse_clients,
    \* one record per broadcast call, in call order: the message, the length
    \* of the client list it cloned, the clients whose send has not
    \* returned, and the clients whose send returned an error
    sse_bcasts

idmapVars == <<nodes, ips>>

connVars == <<forward_senders, conns>>

pauseVars == <<paused, now>>

ingressVars == <<ingress_rx, ingress_app, ingress_open, emitted, yielded>>

ipVars == <<ipIn1, ipIn2, ipOut1, ipOut2>>

spawnVars == <<net, routers, spawns>>

peerVars == <<peers>>

egressVars == <<egress_rx, egress_cur, session_sends>>

sseVars == <<sse_clients, sse_bcasts>>

vars == <<nodes, ips, forward_senders, conns, rcv, paused, now,
          ingress_rx, ingress_app, ingress_open, emitted, last,
          ipIn1, ipIn2, ipOut1, ipOut2, net, routers, spawns, peers, yielded,
          egress_rx, egress_cur, session_sends, sse_clients, sse_bcasts>>

\* an add_virt_node of entry e; re: the NodeId had a row before
Added(e, re) == <<[entry |-> e, re |-> re]>>

\* a remove_node of node_id
Removed(node_id) == <<[removed |-> node_id]>>

\* a shutdown
ShutdownCalled == <<[shutdown |-> TRUE]>>

\* a net.send of the forwarding task of connection c returned an error
SendFailed(c) == <<[send_failed |-> c]>>

\* a node.session.send of the egress router returned an error
SessionSendFailed == <<[session_send_failed |-> TRUE]>>

NotAdd == <<>>

\* default_network: the engine before spawn
Network_new == [ingress_receiver |-> TRUE, egress_receiver |-> TRUE, binds |-> 0]

NoRouters == [ingress |-> 0, egress |-> 0]

\* the layer of one peer of a pair, after new and spawn: its indices and
\* senders, the position of its connect call, the channel and task of its
\* connection, its engine's egress and ingress streams, the datagrams its
\* session has received for it, and its application channel
PeerLayer ==
    [nodes |-> EmptyMap,
     ips |-> EmptyMap,
     forward_senders |-> EmptyMap,
     st |-> "idle",
     established |-> FALSE,
     q |-> <<>>,
     parked |-> FALSE,
     pc |-> "none",
     cur |-> <<>>,
     written |-> 0,
     egress |-> <<>>,
     inbox |-> <<>>,
     rcv |-> <<>>,
     ingress_rx |-> <<>>,
     ingress_app |-> <<>>]

Peers == {NodeA, NodeC}

TwoPeers == (NodeA :> PeerLayer) @@ (NodeC :> PeerLayer)

\* TcpLayer::new, with nothing yet given to to_ipv6
Init ==
    /\ nodes = EmptyMap
    /\ ips = EmptyMap
    /\ forward_senders = EmptyMap
    /\ conns = <<>>
    /\ rcv = <<>>
    /\ paused = {}
    /\ now = 0
    /\ ingress_rx = <<>>
    /\ ingress_app = <<>>
    /\ ingress_open = TRUE
    /\ emitted = 0
    /\ yielded = <<>>
    /\ last = NotAdd
    /\ ipIn1 = <<>>
    /\ ipIn2 = <<>>
    /\ ipOut1 = <<>>
    /\ ipOut2 = <<>>
    /\ net = Network_new
    /\ routers = NoRouters
    /\ spawns = <<>>
    /\ peers = TwoPeers
    /\ egress_rx = <<>>
    /\ egress_cur = <<>>
    /\ session_sends = <<>>
    /\ sse_clients = <<>>
    /\ sse_bcasts = <<>>

(***************************************************************************)
(* IdMap: add_virt_node, remove_node, resolve_node.                        *)
(***************************************************************************)
\* mutant: the row is inserted only when the address has none yet
nodes_insert_if_absent(ns, node) ==
    IF node.endpoint.addr \in DOMAIN ns THEN ns ELSE Put(ns, node.endpoint.addr, node)

\* state.nodes.insert(ip.clone(), node.clone())
nodes_insert(ns, node) == Put(ns, node.endpoint.addr, node)

\* state.ips.insert(node.id, ip)
ips_insert(is, node) == Put(is, node.id, node.endpoint.addr)

\* if let Some(ip) = state.ips.remove(&node_id) { state.nodes.remove(&ip); }
nodes_remove(ns, is, node_id) ==
    IF node_id \in DOMAIN is THEN Del(ns, is[node_id]) ELSE ns

ips_remove(is, node_id) == Del(is, node_id)

\* if let Some(mut sender) = state.forward_senders.remove(&node_id) { sender.close() }
senders_remove(fs, node_id) == Del(fs, node_id)

\* TcpLayerState::resolve_node: <<row>> is Ok(row), <<>> is Err
resolve_node(ns, is, node_id) ==
    IF node_id \notin DOMAIN is THEN <<>>
    ELSE IF is[node_id] \notin DOMAIN ns THEN <<>>
    ELSE <<ns[is[node_id]]>>

\* mutant: the NodeId -> address index is not written
add_virt_node_nodes_only(e) ==
    LET node == VirtNode_try_new(e.id, e.session, e.slot)
    IN  /\ nodes' = nodes_insert(nodes, node)
        /\ ips' = ips

\* TcpLayer::add_virt_node, one critical section
add_virt_node(e) ==
    LET node == VirtNode_try_new(e.id, e.session, e.slot)
    IN  /\ nodes' = nodes_insert(nodes, node)
        /\ ips' = ips_insert(ips, node)

\* TcpLayer::remove_node, one critical section
remove_node(node_id) ==
    /\ ips' = ips_remove(ips, node_id)
    /\ nodes' = nodes_remove(nodes, ips, node_id)
    /\ forward_senders' = senders_remove(forward_senders, node_id)

\* add_virt_node called by the application
AddVirtNode(e) ==
    /\ add_virt_node(e)
    /\ last' = Added(e, e.id \in DOMAIN ips)
    /\ UNCHANGED <<connVars, rcv, pauseVars, ingressVars, ipVars, spawnVars, peerVars, egressVars, sseVars>>

\* a connection whose connect succeeded and whose notifier has not fired
Live(c) == conns[c].st = "live" /\ conns[c].fired = 0

\* remove_node called by the application
RemoveNode(node_id) ==
    /\ remove_node(node_id)
    /\ conns' = Explicit([c \in 1..Len(conns) |->
                    IF /\ conns[c].st \in {"connecting", "live"}
                       /\ conns[c].fired = 0
                       /\ conns[c].node.id = node_id
                    THEN [conns[c] EXCEPT !.rm = TRUE, !.rm_live = @ \/ Live(c)]
                    ELSE conns[c]])
    /\ last' = Removed(node_id)
    /\ UNCHANGED <<rcv, pauseVars, ingressVars, ipVars, spawnVars, peerVars, egressVars, sseVars>>

\* receive, up to its resolve_node: an unknown node is added in a second
\* critical section; the frame then goes to the engine
ReceiveResolve(e) ==
    /\ rcv = <<>>
    /\ rcv' = IF resolve_node(nodes, ips, e.id) = <<>> THEN <<e>> ELSE <<>>
    /\ last' = NotAdd
    /\ UNCHANGED <<idmapVars, connVars, pauseVars, ingressVars, ipVars, spawnVars, peerVars, egressVars, sseVars>>

\* receive, from its add_virt_node on
ReceiveAdd ==
    /\ rcv # <<>>
    /\ add_virt_node(rcv[1])
    /\ rcv' = <<>>
    /\ last' = Added(rcv[1], rcv[1].id \in DOMAIN ips)
    /\ UNCHANGED <<connVars, pauseVars, ingressVars, ipVars, spawnVars, peerVars, egressVars, sseVars>>

(***************************************************************************)
(* Connection manager: connect, the per-peer channel, the forwarding task. *)
(***************************************************************************)
\* the state of one connect call: st is the position of the call, pc the
\* position of the forwarding task it spawned
NewConn(node) ==
    [node |-> node,
     st |-> "connecting",
     \* the application holds the returned Sender
     app_tx |-> FALSE,
     \* the channel's message queue, and whether the application's handle
     \* is parked
     q |-> <<>>,
     parked |-> FALSE,
     pc |-> "none",
     \* the payload taken from rx and not yet given to the engine
     cur |-> <<>>,
     \* the instant delay_for ends
     wake |-> {},
     rx_closed |-> FALSE,
     \* close_connection was called
     eng_closed |-> FALSE,
     \* the task's remove_node has run
     removed |-> FALSE,
     \* number of times disconnect_tx was signalled
     fired |-> 0,
     \* history: the connection was live when shutdown was called
     shut |-> FALSE,
     \* history: the application called remove_node for the NodeId of
     \* this connection after connect had started
     rm |-> FALSE,
     \* history: it did so while the connection was live
     rm_live |-> FALSE,
     \* history: the date still in the future that this task erased from
     \* the pause cell when it last woke
     erased |-> {},
     \* history: the erased dates still in the future when this task last
     \* read the pause cell and found None
     missed |-> {}]

Conns == 1..Len(conns)

\* Sender handles of connection c's channel: the application's and the
\* clones kept in forward_senders
Senders(fs, cn, c) ==
    (IF cn[c].app_tx THEN 1 ELSE 0)
    + Cardinality({n \in DOMAIN fs : fs[n] = c})

\* connect up to its first suspension: add_virt_node, then net.connect
ConnectAdd(e) ==
    /\ add_virt_node(e)
    /\ conns' = Append(conns, NewConn(VirtNode_try_new(e.id, e.session, e.slot)))
    /\ last' = Added(e, e.id \in DOMAIN ips)
    /\ UNCHANGED <<forward_senders, rcv, pauseVars, ingressVars, ipVars, spawnVars, peerVars, egressVars, sseVars>>

\* mutant: a failed connect takes back the node it added
ConnectFail_rollback(c) ==
    /\ conns[c].st = "connecting"
    /\ conns' = [conns EXCEPT ![c].st = "failed"]
    /\ ips' = ips_remove(ips, conns[c].node.id)
    /\ nodes' = nodes_remove(nodes, ips, conns[c].node.id)
    /\ last' = NotAdd
    /\ UNCHANGED <<forward_senders, rcv, pauseVars, ingressVars, ipVars, spawnVars, peerVars, egressVars, sseVars>>

\* net.connect failed: the error is returned by `?`
ConnectFail(c) ==
    /\ conns[c].st = "connecting"
    /\ conns' = [conns EXCEPT ![c].st = "failed"]
    /\ last' = NotAdd
    /\ UNCHANGED <<idmapVars, forward_senders, rcv, pauseVars, ingressVars, ipVars, spawnVars, peerVars, egressVars, sseVars>>

\* net.connect succeeded: channel(1), register_sender(node.id, tx.clone()),
\* spawn_local(forwarding task), Ok((tx, disconnect_rx))
ConnectOk(c) ==
    /\ conns[c].st = "connecting"
    /\ forward_senders' = Put(forward_senders, conns[c].node.id, c)
    /\ conns' = [conns EXCEPT ![c].st = "live", ![c].app_tx = TRUE,
                              ![c].pc = "get_next"]
    /\ last' = NotAdd
    /\ UNCHANGED <<idmapVars, rcv, pauseVars, ingressVars, ipVars, spawnVars, peerVars, egressVars, sseVars>>

\* mutant: the handle is parked one message later
AppSend_late_park(c, payload) ==
    /\ conns[c].app_tx
    /\ ~conns[c].parked
    /\ ~conns[c].rx_closed
    /\ conns' = [conns EXCEPT ![c].q = Append(@, payload),
                              ![c].parked = Len(conns[c].q) + 1 > ChanBuffer + 1]
    /\ last' = NotAdd
    /\ UNCHANGED <<idmapVars, forward_senders, rcv, pauseVars, ingressVars, ipVars, spawnVars, peerVars, egressVars, sseVars>>

\* the application writes a payload to its Sender
AppSend(c, payload) ==
    /\ conns[c].app_tx
    /\ ~conns[c].parked
    /\ ~conns[c].rx_closed
    /\ conns' = [conns EXCEPT ![c].q = Append(@, payload),
                              ![c].parked = Len(conns[c].q) + 1 > ChanBuffer]
    /\ last' = NotAdd
    /\ UNCHANGED <<idmapVars, forward_senders, rcv, pauseVars, ingressVars, ipVars, spawnVars, peerVars, egressVars, sseVars>>

\* the application drops its Sender
AppDrop(c) ==
    /\ conns[c].app_tx
    /\ conns' = [conns EXCEPT ![c].app_tx = FALSE]
    /\ last' = NotAdd
    /\ UNCHANGED <<idmapVars, forward_senders, rcv, pauseVars, ingressVars, ipVars, spawnVars, peerVars, egressVars, sseVars>>

\* the dates later than t that some task has erased from the pause cell
ErasedAhead(cn, t) ==
    {d \in UNION {cn[x].erased : x \in 1..Len(cn)} : d > t}

\* get_next_fwd_payload, from its start to its first suspension: the pause
\* is read; a date in the future is slept on, a date that is not is cleared
\* at once; then rx.next()
TaskGetNext(c) ==
    /\ conns[c].pc = "get_next"
    /\ IF paused = {}
       THEN /\ conns' = [conns EXCEPT ![c].pc = "recv",
                                      ![c].missed = ErasedAhead(conns, now)]
            /\ UNCHANGED paused
       ELSE LET date == CHOOSE d \in paused : TRUE
            IN  IF date > now
                THEN /\ conns' = [conns EXCEPT ![c].pc = "sleep", ![c].wake = {date},
                                               ![c].missed = {}]
                     /\ UNCHANGED paused
                ELSE /\ conns' = [conns EXCEPT ![c].pc = "recv", ![c].missed = {}]
                     /\ paused' = {}
    /\ last' = NotAdd
    /\ UNCHANGED <<idmapVars, forward_senders, rcv, now, ingressVars, ipVars, spawnVars, peerVars, egressVars, sseVars>>

\* mutant: the cell is cleared only when it still holds the date slept on
TaskWake_keep_later(c) ==
    /\ conns[c].pc = "sleep"
    /\ \A t \in conns[c].wake : now >= t
    /\ paused' = IF paused = conns[c].wake THEN {} ELSE paused
    /\ conns' = [conns EXCEPT ![c].pc = "recv", ![c].wake = {}]
    /\ last' = NotAdd
    /\ UNCHANGED <<idmapVars, forward_senders, rcv, now, ingressVars, ipVars, spawnVars, peerVars, egressVars, sseVars>>

\* delay_for is over: (*forward_paused_till.write().await) = None
TaskWake(c) ==
    /\ conns[c].pc = "sleep"
    /\ \A t \in conns[c].wake : now >= t
    /\ paused' = {}
    /\ conns' = [conns EXCEPT ![c].pc = "recv", ![c].wake = {},
                              ![c].erased = {t \in paused : t > now}]
    /\ last' = NotAdd
    /\ UNCHANGED <<idmapVars, forward_senders, rcv, now, ingressVars, ipVars, spawnVars, peerVars, egressVars, sseVars>>

\* rx.next(): a queued payload, or None once no Sender handle is left
TaskRecv(c) ==
    /\ conns[c].pc = "recv"
    /\ IF conns[c].q # <<>>
       THEN conns' = [conns EXCEPT ![c].cur = <<Head(conns[c].q)>>,
                                   ![c].q = Tail(@),
                                   ![c].parked = FALSE,
                                   ![c].pc = "send"]
       ELSE /\ Senders(forward_senders, conns, c) = 0
            /\ conns' = [conns EXCEPT ![c].pc = "close"]
    /\ last' = NotAdd
    /\ UNCHANGED <<idmapVars, forward_senders, rcv, pauseVars, ingressVars, ipVars, spawnVars, peerVars, egressVars, sseVars>>

\* mutant: a failed net.send ends the loop
TaskSend_fatal(c, ok) ==
    /\ conns[c].pc = "send"
    /\ conns' = [conns EXCEPT ![c].cur = <<>>,
                              ![c].pc = IF ok THEN "get_next" ELSE "close"]
    /\ last' = IF ok THEN NotAdd ELSE SendFailed(c)
    /\ UNCHANGED <<idmapVars, forward_senders, rcv, pauseVars, ingressVars, ipVars, spawnVars, peerVars, egressVars, sseVars>>

\* net.send(payload, connection): an error is logged and the loop goes on
TaskSend(c, ok) ==
    /\ conns[c].pc = "send"
    /\ conns' = [conns EXCEPT ![c].cur = <<>>, ![c].pc = "get_next"]
    /\ last' = IF ok THEN NotAdd ELSE SendFailed(c)
    /\ UNCHANGED <<idmapVars, forward_senders, rcv, pauseVars, ingressVars, ipVars, spawnVars, peerVars, egressVars, sseVars>>

\* mutant: the notifier is signalled before the node is removed
TearDownNext_notify_first(pc) ==
    CASE pc = "close" -> "notify"
      [] pc = "notify" -> "remove"
      [] pc = "remove" -> "done"

\* the order of the tear-down after the loop: close_connection,
\* remove_node, disconnect_tx.send
TearDownNext(pc) ==
    CASE pc = "close" -> "remove"
      [] pc = "remove" -> "notify"
      [] pc = "notify" -> "done"

\* myself.net.close_connection(&connection.meta)
TaskClose(c) ==
    /\ conns[c].pc = "close"
    /\ conns' = [conns EXCEPT ![c].eng_closed = TRUE,
                              ![c].pc = TearDownNext("close")]
    /\ last' = NotAdd
    /\ UNCHANGED <<idmapVars, forward_senders, rcv, pauseVars, ingressVars, ipVars, spawnVars, peerVars, egressVars, sseVars>>

\* myself.remove_node(node.id)
TaskRemove(c) ==
    /\ conns[c].pc = "remove"
    /\ remove_node(conns[c].node.id)
    /\ conns' = [conns EXCEPT ![c].removed = TRUE,
                              ![c].pc = TearDownNext("remove")]
    /\ last' = Removed(conns[c].node.id)
    /\ UNCHANGED <<rcv, pauseVars, ingressVars, ipVars, spawnVars, peerVars, egressVars, sseVars>>

\* disconnect_tx.send(()).ok(); rx.close()
TaskNotify(c) ==
    /\ conns[c].pc = "notify"
    /\ conns' = [conns EXCEPT ![c].fired = @ + 1,
                              ![c].rx_closed = TRUE,
                              ![c].pc = TearDownNext("notify")]
    /\ last' = NotAdd
    /\ UNCHANGED <<idmapVars, forward_senders, rcv, pauseVars, ingressVars, ipVars, spawnVars, peerVars, egressVars, sseVars>>

\* shutdown: forward_senders.drain(), each stored handle closed
Shutdown ==
    /\ forward_senders' = EmptyMap
    /\ conns' = Explicit([c \in Conns |->
                    IF Live(c) THEN [conns[c] EXCEPT !.shut = TRUE] ELSE conns[c]])
    /\ last' = ShutdownCalled
    /\ UNCHANGED <<idmapVars, rcv, pauseVars, ingressVars, ipVars, spawnVars, peerVars, egressVars, sseVars>>

(***************************************************************************)
(* The pause cell and the clock.                                           *)
(***************************************************************************)
\* the session layer writes a date in the future to paused_forwarding
SetPause(t) ==
    /\ t > now
    /\ paused' = {t}
    /\ last' = NotAdd
    /\ UNCHANGED <<idmapVars, connVars, rcv, now, ingressVars, ipVars, spawnVars, peerVars, egressVars, sseVars>>

Tick ==
    /\ now < MaxTime
    /\ now' = now + 1
    /\ last' = NotAdd
    /\ UNCHANGED <<idmapVars, connVars, rcv, paused, ingressVars, ipVars, spawnVars, peerVars, egressVars, sseVars>>

(***************************************************************************)
(* Ingress router.                                                         *)
(***************************************************************************)
\* an address no NodeId of the model maps to
StrangerIp == to_ipv6(NodeIdBytes(77, 1))

IpEndpoint(addr) == [ep |-> "Ip", addr |-> addr]

\* a SocketEndpoint that is not SocketEndpoint::Ip
OtherEndpoint == [ep |-> "Other", addr |-> StrangerIp]

IngressEvent(kind, protocol, remote, payload) ==
    [kind |-> kind, protocol |-> protocol, remote |-> remote, payload |-> payload]

\* the events the engine yields
IngressEvents ==
    {IngressEvent("InboundConnection", "Tcp", IpEndpoint(to_ipv6(NodeA)), 0),
     IngressEvent("Disconnected", "Tcp", IpEndpoint(to_ipv6(NodeA)), 0),
     IngressEvent("Packet", "Tcp", IpEndpoint(to_ipv6(NodeA)), 1),
     IngressEvent("Packet", "Tcp", IpEndpoint(to_ipv6(NodeA)), 2),
     IngressEvent("Packet", "Tcp", IpEndpoint(to_ipv6(NodeC)), 1),
     IngressEvent("Packet", "Tcp", IpEndpoint(StrangerIp), 1),
     IngressEvent("Packet", "Udp", IpEndpoint(to_ipv6(NodeA)), 1),
     IngressEvent("Packet", "Tcp", OtherEndpoint, 1)}

Forwarded(node_id, payload) ==
    [reliable |-> TRUE, node_id |-> node_id, payload |-> payload]

\* mutant: the protocol of a packet is not looked at
ingress_router_any_protocol(event, ns, open) ==
    IF event.kind # "Packet" THEN <<>>
    ELSE IF event.remote.ep # "Ip" THEN <<>>
    ELSE IF event.remote.addr \notin DOMAIN ns THEN <<>>
    ELSE IF ~open THEN <<>>
    ELSE <<Forwarded(ns[event.remote.addr].id, event.payload)>>

\* the body of ingress_router for one event: what is sent on the
\* application channel
ingress_router(event, ns, open) ==
    IF event.kind # "Packet" THEN <<>>
    ELSE IF event.protocol # "Tcp" THEN <<>>
    ELSE IF event.remote.ep # "Ip" THEN <<>>
    ELSE IF event.remote.addr \notin DOMAIN ns THEN <<>>
    \* tx.send(payload).is_err(): the application dropped its receiver
    ELSE IF ~open THEN <<>>
    ELSE <<Forwarded(ns[event.remote.addr].id, event.payload)>>

\* the engine yields an event
EngineEmit(event) ==
    /\ emitted < MaxEvents
    /\ emitted' = emitted + 1
    /\ ingress_rx' = Append(ingress_rx, event)
    /\ last' = NotAdd
    /\ UNCHANGED <<idmapVars, connVars, rcv, pauseVars, ingress_app, ingress_open, yielded,
                   ipVars, spawnVars, peerVars, egressVars, sseVars>>

\* the engine yields an event, which is recorded
EngineYield(event) ==
    /\ emitted < MaxEvents
    /\ emitted' = emitted + 1
    /\ ingress_rx' = Append(ingress_rx, event)
    /\ yielded' = Append(yielded, event)
    /\ last' = NotAdd
    /\ UNCHANGED <<idmapVars, connVars, rcv, pauseVars, ingress_app, ingress_open,
                   ipVars, spawnVars, peerVars, egressVars, sseVars>>

\* mutant: the router takes the newest event first
IngressRouter_newest_first ==
    /\ ingress_rx # <<>>
    /\ ingress_rx' = SubSeq(ingress_rx, 1, Len(ingress_rx) - 1)
    /\ ingress_app' = ingress_app
            \o ingress_router(ingress_rx[Len(ingress_rx)], nodes, ingress_open)
    /\ last' = NotAdd
    /\ UNCHANGED <<idmapVars, connVars, rcv, pauseVars, ingress_open, emitted, yielded,
                   ipVars, spawnVars, peerVars, egressVars, sseVars>>

\* the router takes the next event and handles it to completion
IngressRouter ==
    /\ ingress_rx # <<>>
    /\ ingress_rx' = Tail(ingress_rx)
    /\ ingress_app' = ingress_app \o ingress_router(Head(ingress_rx), nodes, ingress_open)
    /\ last' = NotAdd
    /\ UNCHANGED <<idmapVars, connVars, rcv, pauseVars, ingress_open, emitted, yielded,
                   ipVars, spawnVars, peerVars, egressVars, sseVars>>

\* the application drops the receiver of the ingress channel
AppDropReceiver ==
    /\ ingress_open
    /\ ingress_open' = FALSE
    /\ last' = NotAdd
    /\ UNCHANGED <<idmapVars, connVars, rcv, pauseVars, ingress_rx, ingress_app, emitted, yielded,
                   ipVars, spawnVars, peerVars, egressVars, sseVars>>

(***************************************************************************)
(* Egress router.                                                          *)
(***************************************************************************)
\* Forward::new(node.session.id, node.session_slot, egress.payload)
Forward_new(session, session_slot, payload) ==
    [session |-> session, slot |-> session_slot, payload |-> payload]

\* the frames the engine wants to transmit: to NodeA's address and to an
\* address no NodeId maps to
EgressEvents ==
    {[remote |-> to_ipv6(NodeA), payload |-> 1],
     [remote |-> StrangerIp, payload |-> 1]}

\* the body of egress_router for one event, up to its suspension: the
\* Forward given to the session of the row at egress.remote, none when
\* there is no row
egress_router(egress, ns) ==
    IF egress.remote \notin DOMAIN ns THEN <<>>
    ELSE LET node == ns[egress.remote]
         IN  <<Forward_new(node.session, node.session_slot, egress.payload)>>

\* the engine yields a frame to transmit
EngineEgress(egress) ==
    /\ emitted < MaxEvents
    /\ emitted' = emitted + 1
    /\ egress_rx' = Append(egress_rx, egress)
    /\ last' = NotAdd
    /\ UNCHANGED <<idmapVars, connVars, rcv, pauseVars, ingress_rx, ingress_app, ingress_open,
                   yielded, ipVars, spawnVars, peerVars, egress_cur, session_sends, sseVars>>

\* the router takes the next event once the one before is done
EgressRouterTake ==
    /\ egress_cur = <<>>
    /\ egress_rx # <<>>
    /\ egress_rx' = Tail(egress_rx)
    /\ egress_cur' = egress_router(Head(egress_rx), nodes)
    /\ last' = NotAdd
    /\ UNCHANGED <<idmapVars, connVars, rcv, pauseVars, ingressVars, ipVars, spawnVars,
                   peerVars, session_sends, sseVars>>

\* node.session.send(forward) returns: an error is logged
EgressRouterSent(ok) ==
    /\ egress_cur # <<>>
    /\ session_sends' = Append(session_sends, [forward |-> egress_cur[1], ok |-> ok])
    /\ egress_cur' = <<>>
    /\ last' = IF ok THEN NotAdd ELSE SessionSendFailed
    /\ UNCHANGED <<idmapVars, connVars, rcv, pauseVars, ingressVars, ipVars, spawnVars,
                   peerVars, egress_rx, sseVars>>

(***************************************************************************)
(* spawn.  The engine (ya_relay_stack::Network) hands each of its two      *)
(* receivers out once; bind has no failure in the engine's description.    *)
(***************************************************************************)
\* Network::ingress_receiver: Some(receiver) once, None afterwards
ingress_receiver(n) ==
    [some |-> n.ingress_receiver, net |-> [n EXCEPT !.ingress_receiver = FALSE]]

\* Network::egress_receiver: Some(receiver) once, None afterwards
egress_receiver(n) ==
    [some |-> n.egress_receiver, net |-> [n EXCEPT !.egress_receiver = FALSE]]

\* Network::bind(Protocol::Tcp, virt_endpoint)
bind(n) == [n EXCEPT !.binds = @ + 1]

\* mutant: a router is started whether or not the engine gave a receiver
spawn_ingress_router_unchecked(n, r) ==
    LET got == ingress_receiver(n)
    IN  [ok |-> TRUE, net |-> got.net, routers |-> [r EXCEPT !.ingress = @ + 1]]

\* spawn_ingress_router: ingress_receiver().ok_or_else(..)?, then
\* spawn_local(ingress_router(ingress_rx))
spawn_ingress_router(n, r) ==
    LET got == ingress_receiver(n)
    IN  IF got.some
        THEN [ok |-> TRUE, net |-> got.net, routers |-> [r EXCEPT !.ingress = @ + 1]]
        ELSE [ok |-> FALSE, net |-> got.net, routers |-> r]

\* spawn_egress_router: egress_receiver().ok_or_else(..)?, then
\* spawn_local(egress_router(egress_rx))
spawn_egress_router(n, r) ==
    LET got == egress_receiver(n)
    IN  IF got.some
        THEN [ok |-> TRUE, net |-> got.net, routers |-> [r EXCEPT !.egress = @ + 1]]
        ELSE [ok |-> FALSE, net |-> got.net, routers |-> r]

\* TcpLayer::spawn: bind, spawn_ingress_router()?, spawn_egress_router()?
spawn(n, r) ==
    LET i == spawn_ingress_router(bind(n), r)
        e == spawn_egress_router(i.net, i.routers)
    IN  IF ~i.ok THEN [result |-> "Err", net |-> i.net, routers |-> i.routers]
        ELSE IF ~e.ok THEN [result |-> "Err", net |-> e.net, routers |-> e.routers]
        ELSE [result |-> "Ok", net |-> e.net, routers |-> e.routers]

\* spawn called by the application; it has no suspension point
Spawn ==
    /\ Len(spawns) < MaxSpawns
    /\ LET out == spawn(net, routers)
       IN  /\ net' = out.net
           /\ routers' = out.routers
           /\ spawns' = Append(spawns, out.result)
    /\ last' = NotAdd
    /\ UNCHANGED <<idmapVars, connVars, rcv, pauseVars, ingressVars, ipVars, peerVars, egressVars, sseVars>>

\* an ingress router started by spawn takes the next event
RouterTake ==
    /\ routers.ingress >= 1
    /\ IngressRouter

(***************************************************************************)
(* Two peers.  Each runs the layer; what a layer's egress router gives to  *)
(* the session reaches the receive of the peer the row names.  The engine  *)
(* is the collaborator of the component design: connect sends a SYN and    *)
(* returns on the SYN/ACK, send turns a payload into a frame for the       *)
(* connection's endpoint, receive + poll answer a SYN and yield a Packet   *)
(* event for a data frame, with the frame's source as remote.              *)
(***************************************************************************)
Other(p) == CHOOSE o \in Peers : o # p

\* the entry the session layer of a peer has for node n
EntryOf(n) == NodeEntry(n, "S1", 7)

\* what each peer writes: [0x01] and [0x02]
PayloadOf(p) == IF p = NodeA THEN 1 ELSE 2

Frame(kind, src, dst, payload) ==
    [kind |-> kind, src |-> src, dst |-> dst, payload |-> payload]

\* EgressEvent { remote, payload }
EgressEvent(frame) == [remote |-> frame.dst, payload |-> frame]

\* net.receive(frame); net.poll() on the layer l of peer p
engine_receive(l, p, frame) ==
    CASE frame.kind = "syn" ->
            [l EXCEPT
                !.ingress_rx = Append(@, IngressEvent("InboundConnection", "Tcp",
                                                      IpEndpoint(frame.src), 0)),
                !.egress = Append(@, EgressEvent(Frame("synack", to_ipv6(p),
                                                       frame.src, 0)))]
      [] frame.kind = "synack" ->
            [l EXCEPT !.established = TRUE]
      [] frame.kind = "data" ->
            [l EXCEPT
                !.ingress_rx = Append(@, IngressEvent("Packet", "Tcp",
                                                      IpEndpoint(frame.src),
                                                      frame.payload))]

\* add_virt_node on the layer l
peer_add_virt_node(l, e) ==
    LET node == VirtNode_try_new(e.id, e.session, e.slot)
    IN  [l EXCEPT !.nodes = nodes_insert(@, node), !.ips = ips_insert(@, node)]

\* mutant: receive does not add the unknown node
peer_receive_add_skipped(l, p, msg) == engine_receive(l, p, msg.frame)

\* receive from its add_virt_node on: the node is added, the frame goes to
\* the engine
peer_receive_add(l, p, msg) ==
    engine_receive(peer_add_virt_node(l, msg.node), p, msg.frame)

\* connect up to its suspension in net.connect
PeerConnectAdd(p) ==
    /\ peers[p].st = "idle"
    /\ LET added == peer_add_virt_node(peers[p], EntryOf(Other(p)))
           syn == Frame("syn", to_ipv6(p), to_ipv6(Other(p)), 0)
       IN  peers' = [peers EXCEPT
                        ![p] = [added EXCEPT !.st = "connecting",
                                             !.egress = Append(@, EgressEvent(syn))]]
    /\ UNCHANGED <<idmapVars, connVars, rcv, pauseVars, ingressVars, last, ipVars, spawnVars, egressVars, sseVars>>

\* net.connect returned: register_sender, the task is spawned
PeerConnectOk(p) ==
    /\ peers[p].st = "connecting"
    /\ peers[p].established
    /\ peers' = [peers EXCEPT
                    ![p].st = "live",
                    ![p].forward_senders = Put(@, Other(p), 1),
                    ![p].pc = "recv"]
    /\ UNCHANGED <<idmapVars, connVars, rcv, pauseVars, ingressVars, last, ipVars, spawnVars, egressVars, sseVars>>

\* the application writes its payload to the Sender
PeerAppSend(p) ==
    /\ peers[p].st = "live"
    /\ ~peers[p].parked
    /\ peers[p].written < MaxWrites
    /\ peers' = [peers EXCEPT
                    ![p].q = Append(@, PayloadOf(p)),
                    ![p].parked = Len(peers[p].q) + 1 > ChanBuffer,
                    ![p].written = @ + 1]
    /\ UNCHANGED <<idmapVars, connVars, rcv, pauseVars, ingressVars, last, ipVars, spawnVars, egressVars, sseVars>>

\* get_next_fwd_payload with no pause set: rx.next() yields a payload
PeerTaskRecv(p) ==
    /\ peers[p].pc = "recv"
    /\ peers[p].q # <<>>
    /\ peers' = [peers EXCEPT
                    ![p].cur = <<Head(peers[p].q)>>,
                    ![p].q = Tail(@),
                    ![p].parked = FALSE,
                    ![p].pc = "send"]
    /\ UNCHANGED <<idmapVars, connVars, rcv, pauseVars, ingressVars, last, ipVars, spawnVars, egressVars, sseVars>>

\* net.send(payload, connection)
PeerTaskSend(p) ==
    /\ peers[p].pc = "send"
    /\ LET data == Frame("data", to_ipv6(p), to_ipv6(Other(p)), peers[p].cur[1])
       IN  peers' = [peers EXCEPT
                        ![p].cur = <<>>,
                        ![p].pc = "recv",
                        ![p].egress = Append(@, EgressEvent(data))]
    /\ UNCHANGED <<idmapVars, connVars, rcv, pauseVars, ingressVars, last, ipVars, spawnVars, egressVars, sseVars>>

\* egress_router for one event: the row at egress.remote, then
\* node.session.send(Forward), which reaches the receive of that node
PeerEgressRouter(p) ==
    /\ peers[p].egress # <<>>
    /\ LET egress == Head(peers[p].egress)
           ns == peers[p].nodes
       IN  IF egress.remote \notin DOMAIN ns
           THEN peers' = [peers EXCEPT ![p].egress = Tail(@)]
           ELSE LET to == ns[egress.remote].id
                    msg == [node |-> EntryOf(p), frame |-> egress.payload]
                IN  peers' = [peers EXCEPT
                                ![p].egress = Tail(@),
                                ![to].inbox = Append(@, msg)]
    /\ UNCHANGED <<idmapVars, connVars, rcv, pauseVars, ingressVars, last, ipVars, spawnVars, egressVars, sseVars>>

\* receive up to its resolve_node; a known node's frame goes to the engine
PeerReceiveResolve(p) ==
    /\ peers[p].inbox # <<>>
    /\ peers[p].rcv = <<>>
    /\ LET msg == Head(peers[p].inbox)
           taken == [peers[p] EXCEPT !.inbox = Tail(@)]
       IN  IF resolve_node(peers[p].nodes, peers[p].ips, msg.node.id) = <<>>
           THEN peers' = [peers EXCEPT ![p] = [taken EXCEPT !.rcv = <<msg>>]]
           ELSE peers' = [peers EXCEPT ![p] = engine_receive(taken, p, msg.frame)]
    /\ UNCHANGED <<idmapVars, connVars, rcv, pauseVars, ingressVars, last, ipVars, spawnVars, egressVars, sseVars>>

PeerReceiveAdd(p) ==
    /\ peers[p].rcv # <<>>
    /\ peers' = [peers EXCEPT
                    ![p] = [peer_receive_add(peers[p], p, peers[p].rcv[1])
                                EXCEPT !.rcv = <<>>]]
    /\ UNCHANGED <<idmapVars, connVars, rcv, pauseVars, ingressVars, last, ipVars, spawnVars, egressVars, sseVars>>

\* ingress_router for one event
PeerIngressRouter(p) ==
    /\ peers[p].ingress_rx # <<>>
    /\ peers' = [peers EXCEPT
                    ![p].ingress_rx = Tail(@),
                    ![p].ingress_app =
                        @ \o ingress_router(Head(peers[p].ingress_rx),
                                            peers[p].nodes, TRUE)]
    /\ UNCHANGED <<idmapVars, connVars, rcv, pauseVars, ingressVars, last, ipVars, spawnVars, egressVars, sseVars>>

\* the tasks of peer p: its connect, its forwarding task, its routers and
\* the receive calls of its session
PeerStep(p) ==
    \/ PeerConnectOk(p)
    \/ PeerTaskRecv(p)
    \/ PeerTaskSend(p)
    \/ PeerEgressRouter(p)
    \/ PeerReceiveResolve(p)
    \/ PeerReceiveAdd(p)
    \/ PeerIngressRouter(p)

(***************************************************************************)
(* SSE fan-out of the server (server/src/sse.rs).  Each client has a       *)
(* bounded tokio mpsc channel: a send is accepted while the channel holds  *)
(* fewer than its capacity and no earlier send waits for it, fails when    *)
(* the receiver is gone, and waits otherwise.                              *)
(***************************************************************************)
\* sse::Data::new(data).into(); n tells the broadcast calls apart
Event(data, n) == [data |-> data, n |-> n]

Connected == Event("connected", 0)

\* a client after add_client: "connected" is in its channel
NewClient == [q |-> <<Connected>>, open |-> TRUE, first |-> <<>>]

\* client.send of broadcast call b to client i is accepted now
CanSend(cl, bs, b, i) ==
    /\ cl[i].open
    /\ Len(cl[i].q) < SseBuffer
    /\ ~\E a \in 1..Len(bs) : a < b /\ i \in bs[a].pending

\* add_client: channel(10), tx.send("connected"), clients.push(tx)
AddClient ==
    /\ Len(sse_clients) < MaxClients
    /\ sse_clients' = Append(sse_clients, NewClient)
    /\ UNCHANGED <<idmapVars, connVars, rcv, pauseVars, ingressVars, last, ipVars, spawnVars,
                   peerVars, egressVars, sse_bcasts>>

\* broadcast up to its suspension in join_all: the client list is cloned
\* and every send is polled once
Broadcast ==
    /\ Len(sse_bcasts) < MaxBroadcasts
    /\ LET b == Len(sse_bcasts) + 1
           n == Len(sse_clients)
           msg == Event("msg", b)
           failed == {i \in 1..n : ~sse_clients[i].open}
           sent == {i \in 1..n : CanSend(sse_clients, sse_bcasts, b, i)}
       IN  /\ sse_clients' = Explicit([i \in 1..n |->
                                IF i \in sent
                                THEN [sse_clients[i] EXCEPT !.q = Append(@, msg)]
                                ELSE sse_clients[i]])
           /\ sse_bcasts' = Append(sse_bcasts,
                                [msg |-> msg,
                                 clients |-> n,
                                 pending |-> (1..n) \ (failed \cup sent),
                                 failed |-> failed])
    /\ UNCHANGED <<idmapVars, connVars, rcv, pauseVars, ingressVars, last, ipVars, spawnVars,
                   peerVars, egressVars>>

\* join_all is polled again: the waiting send of call b to client i
\* returns, with an error when the client's receiver is gone
BroadcastResume(b, i) ==
    /\ b \in 1..Len(sse_bcasts)
    /\ i \in sse_bcasts[b].pending
    /\ IF ~sse_clients[i].open
       THEN /\ sse_bcasts' = [sse_bcasts EXCEPT ![b].pending = @ \ {i},
                                                ![b].failed = @ \cup {i}]
            /\ UNCHANGED sse_clients
       ELSE /\ CanSend(sse_clients, sse_bcasts, b, i)
            /\ sse_clients' = [sse_clients EXCEPT ![i].q = Append(@, sse_bcasts[b].msg)]
            /\ sse_bcasts' = [sse_bcasts EXCEPT ![b].pending = @ \ {i}]
    /\ UNCHANGED <<idmapVars, connVars, rcv, pauseVars, ingressVars, last, ipVars, spawnVars,
                   peerVars, egressVars>>

\* the stream of client i yields its next event
ClientRead(i) ==
    /\ i \in 1..Len(sse_clients)
    /\ sse_clients[i].open
    /\ sse_clients[i].q # <<>>
    /\ sse_clients' = [sse_clients EXCEPT
                          ![i].q = Tail(@),
                          ![i].first = IF @ = <<>> THEN <<Head(sse_clients[i].q)>> ELSE @]
    /\ UNCHANGED <<idmapVars, connVars, rcv, pauseVars, ingressVars, last, ipVars, spawnVars,
                   peerVars, egressVars, sse_bcasts>>

\* the stream of client i is dropped
ClientDrop(i) ==
    /\ i \in 1..Len(sse_clients)
    /\ sse_clients[i].open
    /\ sse_clients' = [sse_clients EXCEPT ![i].open = FALSE, ![i].q = <<>>]
    /\ UNCHANGED <<idmapVars, connVars, rcv, pauseVars, ingressVars, last, ipVars, spawnVars,
                   peerVars, egressVars, sse_bcasts>>

(***************************************************************************)
(* Specifications.                                                         *)
(***************************************************************************)
\* the steps of the forwarding tasks when no pause is ever set
TaskStep(c) ==
    \/ TaskGetNext(c)
    \/ TaskRecv(c)
    \/ \E ok \in BOOLEAN : TaskSend(c, ok)
    \/ TaskClose(c)
    \/ TaskRemove(c)
    \/ TaskNotify(c)

\* the layer's API called in any order, with the forwarding tasks
Next ==
    \/ \E e \in NodeEntries : AddVirtNode(e)
    \/ \E n \in NodeIds : RemoveNode(n)
    \/ \E e \in NodeEntries : ReceiveResolve(e)
    \/ ReceiveAdd
    \/ \E e \in NodeEntries : Len(conns) < MaxConns /\ ConnectAdd(e)
    \/ \E c \in Conns : ConnectFail(c)
    \/ \E c \in Conns : ConnectOk(c)
    \/ \E c \in Conns, p \in Payloads : AppSend(c, p)
    \/ \E c \in Conns : AppDrop(c)
    \/ \E c \in Conns : TaskStep(c)
    \/ Shutdown

Spec == Init /\ [][Next]_vars

\* one peer, its connection and the calls that close it, with the executor
\* running every runnable forwarding task
LiveEntries == {NodeEntry(NodeA, "S1", 7), NodeEntry(NodeC, "S1", 7)}

LiveNext ==
    \/ Len(conns) < MaxConns /\ \E e \in LiveEntries : ConnectAdd(e)
    \/ \E c \in Conns : ConnectFail(c)
    \/ \E c \in Conns : ConnectOk(c)
    \/ \E c \in Conns, p \in Payloads : AppSend(c, p)
    \/ \E c \in Conns : AppDrop(c)
    \/ \E c \in Conns : TaskStep(c)
    \/ \E e \in LiveEntries : RemoveNode(e.id)
    \/ Shutdown

LiveSpec ==
    /\ Init
    /\ [][LiveNext]_vars
    /\ \A c \in 1..MaxConns : WF_vars(c \in Conns /\ TaskStep(c))

\* connections, the pause cell written by the session layer, and the clock
PauseEntries == {NodeEntry(NodeA, "S1", 7), NodeEntry(NodeC, "S1", 7)}

PauseNext ==
    \/ \E e \in PauseEntries : Len(conns) < MaxPauseConns /\ ConnectAdd(e)
    \/ \E c \in Conns : ConnectOk(c)
    \/ \E c \in Conns, p \in Payloads : AppSend(c, p)
    \/ \E c \in Conns : TaskGetNext(c)
    \/ \E c \in Conns : TaskWake(c)
    \/ \E c \in Conns : TaskRecv(c)
    \/ \E c \in Conns, ok \in BOOLEAN : TaskSend(c, ok)
    \/ \E t \in 1..MaxTime : SetPause(t)
    \/ Tick

PauseSpec == Init /\ [][PauseNext]_vars

\* the IdMap and the ingress router
IngressEntries == {NodeEntry(NodeA, "S1", 7), NodeEntry(NodeC, "S1", 7)}

IngressNext ==
    \/ \E e \in IngressEntries : AddVirtNode(e)
    \/ \E e \in IngressEntries : RemoveNode(e.id)
    \/ \E event \in IngressEvents : EngineEmit(event)
    \/ IngressRouter
    \/ AppDropReceiver

IngressSpec == Init /\ [][IngressNext]_vars

\* receive and connect for one NodeId, with different sessions
RaceEntries == {NodeEntry(NodeA, "S1", 7), NodeEntry(NodeA, "S2", 9)}

RaceNext ==
    \/ \E e \in RaceEntries : ReceiveResolve(e)
    \/ ReceiveAdd
    \/ \E e \in RaceEntries : Len(conns) < MaxConns /\ ConnectAdd(e)
    \/ \E c \in Conns : ConnectFail(c)
    \/ \E c \in Conns : ConnectOk(c)
    \/ \E c \in Conns, p \in Payloads : AppSend(c, p)
    \/ \E c \in Conns : AppDrop(c)
    \/ \E c \in Conns : TaskStep(c)

RaceSpec == Init /\ [][RaceNext]_vars

\* the IdMap and the ingress router, with the yielded events recorded
OrderEntries == {NodeEntry(NodeA, "S1", 7), NodeEntry(NodeC, "S1", 7)}

OrderEvents ==
    {IngressEvent("Packet", "Tcp", IpEndpoint(to_ipv6(NodeA)), 1),
     IngressEvent("Packet", "Tcp", IpEndpoint(to_ipv6(NodeA)), 2),
     IngressEvent("Packet", "Tcp", IpEndpoint(to_ipv6(NodeC)), 1),
     IngressEvent("Packet", "Tcp", IpEndpoint(to_ipv6(NodeC)), 2),
     IngressEvent("Disconnected", "Tcp", IpEndpoint(to_ipv6(NodeA)), 0)}

OrderNext ==
    \/ \E e \in OrderEntries : AddVirtNode(e)
    \/ \E e \in OrderEntries : RemoveNode(e.id)
    \/ \E event \in OrderEvents : EngineYield(event)
    \/ IngressRouter

OrderSpec == Init /\ [][OrderNext]_vars

\* spawn called any number of times, with the engine's events and the
\* router
SpawnEntries == {NodeEntry(NodeA, "S1", 7), NodeEntry(NodeC, "S1", 7)}

SpawnNext ==
    \/ Spawn
    \/ \E e \in SpawnEntries : AddVirtNode(e)
    \/ \E event \in IngressEvents : EngineEmit(event)
    \/ RouterTake

SpawnSpec == Init /\ [][SpawnNext]_vars

\* one connection and the egress router, with sends that fail; the
\* executor runs every runnable task and every session send returns
SendEntries == {NodeEntry(NodeA, "S1", 7)}

SendNext ==
    \/ \E e \in SendEntries : AddVirtNode(e)
    \/ \E e \in SendEntries : RemoveNode(e.id)
    \/ \E e \in SendEntries : Len(conns) < MaxConns /\ ConnectAdd(e)
    \/ \E c \in Conns : ConnectOk(c)
    \/ \E c \in Conns, p \in Payloads : AppSend(c, p)
    \/ \E c \in Conns : AppDrop(c)
    \/ \E c \in Conns : TaskStep(c)
    \/ \E egress \in EgressEvents : EngineEgress(egress)
    \/ EgressRouterTake
    \/ \E ok \in BOOLEAN : EgressRouterSent(ok)

SendSpec ==
    /\ Init
    /\ [][SendNext]_vars
    /\ \A c \in 1..MaxConns : WF_vars(c \in Conns /\ TaskStep(c))
    /\ WF_vars(EgressRouterTake)
    /\ WF_vars(\E ok \in BOOLEAN : EgressRouterSent(ok))

\* connect called more than once for one NodeId, with either session; the
\* application writes to and drops the senders it was given
SameNodeEntries == {NodeEntry(NodeA, "S1", 7), NodeEntry(NodeA, "S2", 9)}

SameNodeNext ==
    \/ \E e \in SameNodeEntries : Len(conns) < MaxSameConns /\ ConnectAdd(e)
    \/ \E c \in Conns : ConnectOk(c)
    \/ \E c \in Conns, p \in Payloads : AppSend(c, p)
    \/ \E c \in Conns : AppDrop(c)
    \/ \E c \in Conns : TaskStep(c)

SameNodeSpec == Init /\ [][SameNodeNext]_vars

\* clients that come, read or do not read, and go, with the broadcasts;
\* the executor polls a broadcast again whenever one of its sends can return
SseNext ==
    \/ AddClient
    \/ Broadcast
    \/ \E b \in 1..MaxBroadcasts, i \in 1..MaxClients : BroadcastResume(b, i)
    \/ \E i \in 1..MaxClients : ClientRead(i)
    \/ \E i \in 1..MaxClients : ClientDrop(i)

SseSpec ==
    /\ Init
    /\ [][SseNext]_vars
    /\ WF_vars(\E b \in 1..MaxBroadcasts, i \in 1..MaxClients : BroadcastResume(b, i))

\* two spawned peers that connect to each other and write
TwoPeerNext ==
    \/ \E p \in Peers : PeerConnectAdd(p)
    \/ \E p \in Peers : PeerAppSend(p)
    \/ \E p \in Peers : PeerStep(p)

TwoPeerSpec ==
    /\ Init
    /\ [][TwoPeerNext]_vars
    /\ \A p \in Peers : WF_vars(PeerStep(p))

(***************************************************************************)
(* to_ipv6 on its own: Init draws the byte strings, IpApply applies it.    *)
(***************************************************************************)
FirstBytes == {0, 1, 2, 127, 254, 255}

OtherBytes == {0, 1, 2, 255}

\* a byte string of length len: `first` at index 0, val at index pos - 1,
\* zero elsewhere
ByteString(len, first, pos, val) ==
    Explicit([i \in 1..len |-> IF i = 1 THEN first ELSE IF i = pos THEN val ELSE 0])

ByteStrings ==
    {ByteString(len, f, pos, v) :
        len \in 0..MaxIdLen, f \in FirstBytes, pos \in 2..MaxIdLen, v \in OtherBytes}

\* b with the byte at index pos - 1 replaced
WithByte(b, pos, val) == [b EXCEPT ![pos] = val]

\* the second string: a 20-byte identifier is paired with itself and with
\* every identifier that differs from it in one byte
SecondStrings(b) ==
    IF Len(b) = 20
    THEN {b} \cup {WithByte(b, pos, v) : pos \in 1..20, v \in FirstBytes}
    ELSE {b}

IpInit ==
    /\ nodes = EmptyMap
    /\ ips = EmptyMap
    /\ forward_senders = EmptyMap
    /\ conns = <<>>
    /\ rcv = <<>>
    /\ paused = {}
    /\ now = 0
    /\ ingress_rx = <<>>
    /\ ingress_app = <<>>
    /\ ingress_open = TRUE
    /\ emitted = 0
    /\ yielded = <<>>
    /\ last = NotAdd
    /\ ipIn1 \in ByteStrings
    /\ ipIn2 \in SecondStrings(ipIn1)
    /\ ipOut1 = <<>>
    /\ ipOut2 = <<>>
    /\ net = Network_new
    /\ routers = NoRouters
    /\ spawns = <<>>
    /\ peers = TwoPeers
    /\ egress_rx = <<>>
    /\ egress_cur = <<>>
    /\ session_sends = <<>>
    /\ sse_clients = <<>>
    /\ sse_bcasts = <<>>

IpApply ==
    /\ ipOut1 = <<>>
    /\ ipOut1' = to_ipv6(ipIn1)
    /\ ipOut2' = to_ipv6(ipIn2)
    /\ UNCHANGED <<idmapVars, connVars, rcv, pauseVars, ingressVars, last, ipIn1, ipIn2,
                   spawnVars, peerVars, egressVars, sseVars>>

IpNext == IpApply

IpSpec == IpInit /\ [][IpNext]_vars

(***************************************************************************)
(* Properties.                                                             *)
(***************************************************************************)
\* C1: the two indices are mutually consistent: every (n, ip) of ips has a
\* row at ip in nodes whose id is n, and every row of nodes has its id
\* mapped to its address in ips.
C1_IndicesConsistent ==
    /\ \A n \in DOMAIN ips :
          ips[n] \in DOMAIN nodes /\ nodes[ips[n]].id = n
    /\ \A ip \in DOMAIN nodes :
          nodes[ip].id \in DOMAIN ips /\ ips[nodes[ip].id] = ip

\* C4: the notifier of a connection fires at most once, only for a connect
\* that succeeded, only after close_connection and then the task's
\* remove_node have run, and never while the task can still forward.
C4_NotifierAfterTearDown ==
    \A c \in Conns :
        /\ conns[c].fired <= 1
        /\ conns[c].removed => conns[c].eng_closed
        /\ conns[c].fired > 0 =>
              /\ conns[c].st = "live"
              /\ conns[c].eng_closed
              /\ conns[c].removed
              /\ conns[c].pc \notin {"get_next", "sleep", "recv", "send"}

C4_Fired == \E c \in Conns : conns[c].fired = 1

\* C5: an add_virt_node of a NodeId that already has a row leaves ips as it
\* was, leaves exactly one row with that id in nodes, the row of the new
\* entry, which resolve_node returns; it changes no row at another address
\* and nothing of forward_senders.
C5_ReAddReplaces ==
    [][\A e \in NodeEntries :
          last' = Added(e, TRUE) =>
              /\ ips' = ips
              /\ e.id \in DOMAIN ips'
              /\ Cardinality({ip \in DOMAIN nodes' : nodes'[ip].id = e.id}) = 1
              /\ resolve_node(nodes', ips', e.id)
                    = <<VirtNode_try_new(e.id, e.session, e.slot)>>
              /\ \A ip \in (DOMAIN nodes) \ {to_ipv6(e.id)} :
                    ip \in DOMAIN nodes' /\ nodes'[ip] = nodes[ip]
              /\ (DOMAIN nodes') \ {to_ipv6(e.id)} \subseteq DOMAIN nodes
              /\ forward_senders' = forward_senders]_vars

\* a second add of NodeA, with the other session, while NodeA has a sender
C5_ReAdded ==
    /\ last = Added(NodeEntry(NodeA, "S2", 9), TRUE)
    /\ NodeA \in DOMAIN forward_senders
    /\ nodes[to_ipv6(NodeA)].session = "S2"

Unspecified == Zeros(IPV6_ADDRESS_LEN)

Localhost == Zeros(IPV6_ADDRESS_LEN - 1) \o <<1>>

\* C6: whatever the byte string, the address to_ipv6 returns does not start
\* with 0xFF and is neither ::0 nor ::1.
C6_NoReservedAddress ==
    ipOut1 # <<>> =>
        /\ Len(ipOut1) = IPV6_ADDRESS_LEN
        /\ ipOut1[1] # 255
        /\ ipOut1 # Unspecified
        /\ ipOut1 # Localhost

\* an input that starts with 0xFF and is zero elsewhere, shorter than 16
C6_MulticastInput ==
    /\ ipOut1 # <<>>
    /\ Len(ipIn1) \in 1..15
    /\ ipIn1[1] = 255
    /\ \A i \in 2..Len(ipIn1) : ipIn1[i] = 0

\* the derivation as the data model words it: the first 16 bytes padded
\* right with zeros, byte 0 modulo 0xFF, byte 15 forced to 2 when bytes
\* 0..14 are zero and byte 15 is below 2
Reduced(b) ==
    LET padded == SubSeq(b \o Zeros(IPV6_ADDRESS_LEN), 1, IPV6_ADDRESS_LEN)
    IN  <<padded[1] % 255>> \o Tail(padded)

Reference(b) ==
    LET r == Reduced(b)
    IN  IF SubSeq(r, 1, 15) = Zeros(15) /\ r[16] \in {0, 1}
        THEN Zeros(15) \o <<2>>
        ELSE r

\* C7: to_ipv6 is the reference derivation; a first byte 0xFF becomes 0x00,
\* the all-zero NodeId becomes ::2, a first byte 0xFE stays, and equal
\* inputs give equal addresses.
C7_MatchesReference ==
    ipOut1 # <<>> =>
        /\ ipOut1 = Reference(ipIn1)
        /\ ipOut2 = Reference(ipIn2)
        /\ (Len(ipIn1) > 0 /\ ipIn1[1] = 255) => ipOut1[1] = 0
        /\ (Len(ipIn1) > 0 /\ ipIn1[1] = 254) => ipOut1[1] = 254
        /\ ipIn1 = Zeros(20) => ipOut1 = Zeros(15) \o <<2>>
        /\ ipIn1 = ipIn2 => ipOut1 = ipOut2

\* the all-zero NodeId has been mapped
C7_AllZeroMapped == ipOut1 # <<>> /\ ipIn1 = Zeros(20)

\* C8, as claimed: two distinct 20-byte NodeIds never get the same address.
C8_Injective ==
    (ipOut1 # <<>> /\ Len(ipIn1) = 20 /\ Len(ipIn2) = 20 /\ ipIn1 # ipIn2)
        => ipOut1 # ipOut2

\* bytes 0..14 reduce to zero and byte 15 is at most 2: ::0, ::1 or ::2
LowAddress(b) ==
    SubSeq(Reduced(b), 1, 15) = Zeros(15) /\ Reduced(b)[16] <= 2

\* C8, amended: two distinct 20-byte NodeIds get the same address exactly
\* when their first 16 bytes agree once byte 0 is taken modulo 0xFF, or
\* when both reduce to one of ::0, ::1, ::2.
C8_InjectiveOnReducedPrefix ==
    (ipOut1 # <<>> /\ Len(ipIn1) = 20 /\ Len(ipIn2) = 20 /\ ipIn1 # ipIn2)
        => (ipOut1 = ipOut2
              <=> \/ Reduced(ipIn1) = Reduced(ipIn2)
                  \/ LowAddress(ipIn1) /\ LowAddress(ipIn2))

\* two NodeIds that differ in byte 15 only, with different addresses
C8_DistinctPrefixes ==
    /\ ipOut1 # <<>>
    /\ Len(ipIn1) = 20 /\ Len(ipIn2) = 20
    /\ ipIn1[16] # ipIn2[16]
    /\ \A i \in 1..20 : i # 16 => ipIn1[i] = ipIn2[i]
    /\ ipOut1 # ipOut2

\* C2: once the application has dropped the Sender of a live connection,
\* and neither remove_node nor shutdown is called for it, the forwarding
\* task ends: the notifier fires and the NodeId has no entry left in
\* forward_senders and no row in the IdMap.
C2_DropTearsDown ==
    \A c \in 1..MaxConns :
        (/\ c \in Conns
         /\ Live(c)
         /\ ~conns[c].app_tx
         /\ ~conns[c].rm
         /\ ~conns[c].shut)
        ~> (/\ c \in Conns
            /\ \/ conns[c].rm
               \/ conns[c].shut
               \/ /\ conns[c].fired = 1
                  /\ conns[c].pc = "done"
                  /\ conns[c].node.id \notin DOMAIN forward_senders
                  /\ conns[c].node.id \notin DOMAIN ips)

\* C3: shutdown leaves forward_senders empty, and every connection that was
\* live when it was called has its task run the tear-down and fire the
\* notifier, whether the application still holds the Sender or not.
C3_ShutdownTearsDown ==
    /\ [][(\E c \in Conns : ~conns[c].shut /\ conns'[c].shut)
             => forward_senders' = EmptyMap]_vars
    /\ \A c \in 1..MaxConns :
          (c \in Conns /\ conns[c].shut)
          ~> (/\ c \in Conns
              /\ conns[c].eng_closed
              /\ conns[c].removed
              /\ conns[c].fired = 1)

\* C9: pause is honored: whenever paused_forwarding holds a date in the
\* future, no forwarding task hands a payload to the engine (net.send).
C9_PauseHonored ==
    [][\A c \in Conns :
          (conns[c].pc = "send" /\ conns'[c].pc = "get_next")
              => \A t \in paused : t <= now]_vars

\* C10: the router puts an item on the application channel only when it
\* takes a TCP Packet event whose remote is an IP address with a row in
\* nodes; the item carries that row's id, the packet's payload and
\* reliable = true.  No other event and no other step delivers anything.
C10_IngressDelivery ==
    [][/\ (ingress_rx # <<>> /\ ingress_rx' = Tail(ingress_rx)) =>
            LET event == Head(ingress_rx)
                routable ==
                    /\ event.kind = "Packet"
                    /\ event.protocol = "Tcp"
                    /\ event.remote.ep = "Ip"
                    /\ event.remote.addr \in DOMAIN nodes
            IN  /\ ~routable => ingress_app' = ingress_app
                /\ routable =>
                      \/ ingress_app' = ingress_app
                      \/ ingress_app' =
                            Append(ingress_app,
                                   [reliable |-> TRUE,
                                    node_id |-> nodes[event.remote.addr].id,
                                    payload |-> event.payload])
                /\ (routable /\ ingress_open) => ingress_app' # ingress_app
       /\ ingress_app' # ingress_app =>
            (ingress_rx # <<>> /\ ingress_rx' = Tail(ingress_rx))]_vars

\* every event has been taken; one was delivered and one was not, and the
\* sender of the delivered one has been removed since
C10_DeliveredAndDropped ==
    /\ emitted = MaxEvents
    /\ ingress_rx = <<>>
    /\ Len(ingress_app) = 1
    /\ ingress_app[1].node_id = NodeA
    /\ nodes = EmptyMap

\* C11: resolve_node(n) returns n's row exactly when n was added and not
\* removed since: an add of n makes it return the row of the entry added, a
\* remove_node(n) makes it fail, and no other step changes what it returns;
\* a remove_node of a NodeId with no row and no sender changes nothing.
C11_ResolveTracksAddRemove ==
    [][\A n \in NodeIds :
          LET adds == {e \in NodeEntries :
                          e.id = n /\ last' \in {Added(e, TRUE), Added(e, FALSE)}}
              row == resolve_node(nodes', ips', n)
          IN  /\ \A e \in adds : row = <<VirtNode_try_new(e.id, e.session, e.slot)>>
              /\ last' = Removed(n) =>
                    /\ row = <<>>
                    /\ (n \notin DOMAIN ips /\ n \notin DOMAIN forward_senders)
                          => <<nodes', ips', forward_senders'>>
                                = <<nodes, ips, forward_senders>>
              /\ (adds = {} /\ last' # Removed(n)) =>
                    row = resolve_node(nodes, ips, n)]_vars

\* the step just taken was an add_virt_node that wrote the row of
\* connection c; fresh: the NodeId had no row before that add
AddedRowOf(c, fresh) ==
    \E e \in NodeEntries :
        /\ VirtNode_try_new(e.id, e.session, e.slot) = conns[c].node
        /\ \/ last = Added(e, FALSE)
           \/ ~fresh /\ last = Added(e, TRUE)

\* C12, as claimed: a connect whose engine step fails leaves no sender, no
\* task and no node state: when the NodeId was unknown before the call,
\* resolve_node fails after it.
C12_FailedConnectRetainsNothing ==
    [][\A c \in Conns :
          (conns[c].st = "connecting" /\ conns'[c].st = "failed") =>
              /\ conns'[c].pc = "none"
              /\ \A n \in DOMAIN forward_senders' : forward_senders'[n] # c
              /\ (c = Len(conns) /\ AddedRowOf(c, TRUE)) =>
                    resolve_node(nodes', ips', conns[c].node.id) = <<>>]_vars

\* C12, amended: a connect whose engine step fails returns without a
\* sender and without a task, now and later, and its failure changes
\* nothing of the IdMap or of forward_senders: the row its add_virt_node
\* wrote stays, and resolve_node returns it.
C12_FailedConnectKeepsRow ==
    /\ [](\A c \in Conns :
            conns[c].st = "failed" =>
                /\ conns[c].pc = "none"
                /\ ~conns[c].app_tx
                /\ \A n \in DOMAIN forward_senders : forward_senders[n] # c)
    /\ [][\A c \in Conns :
            (conns[c].st = "connecting" /\ conns'[c].st = "failed") =>
                /\ <<nodes', ips', forward_senders'>> = <<nodes, ips, forward_senders>>
                /\ AddedRowOf(c, FALSE) =>
                      resolve_node(nodes', ips', conns[c].node.id) = <<conns[c].node>>]_vars

\* a connect of an unknown node has just failed and its row resolves
C12_FailedWithRow ==
    \E c \in Conns :
        /\ conns[c].st = "failed"
        /\ last = NotAdd
        /\ forward_senders = EmptyMap
        /\ resolve_node(nodes, ips, conns[c].node.id) = <<conns[c].node>>

\* C13: spawn returns Ok at most once: the first call returns Ok and starts
\* one ingress router and one egress router, every later call returns an
\* error and starts none, so there is never more than one router of a kind
\* to take the engine's events.
C13_SpawnOnce ==
    /\ Cardinality({i \in 1..Len(spawns) : spawns[i] = "Ok"}) <= 1
    /\ routers.ingress <= 1
    /\ routers.egress <= 1
    /\ Len(spawns) = 0 => routers = NoRouters
    /\ Len(spawns) >= 1 =>
          /\ spawns[1] = "Ok"
          /\ routers = [ingress |-> 1, egress |-> 1]
    /\ \A i \in 2..Len(spawns) : spawns[i] = "Err"

\* spawn was called again after it had succeeded, and the router has
\* delivered a packet
C13_SpawnedTwice ==
    /\ Len(spawns) >= 2
    /\ ingress_rx = <<>>
    /\ ingress_app # <<>>

\* the items of peer p's application channel that are the payload of its
\* peer, from its peer, reliable
FromPeer(p) ==
    {i \in 1..Len(peers[p].ingress_app) :
        peers[p].ingress_app[i] =
            [reliable |-> TRUE, node_id |-> Other(p), payload |-> PayloadOf(Other(p))]}

\* C14: a peer's connect to a peer that has not registered it completes,
\* the other peer having registered it on the first inbound frame; every
\* payload a peer then writes to its sender is eventually on the
\* application channel of the other peer, as a reliable Forwarded item with
\* the writer's NodeId; nothing else is ever delivered.
C14_TwoWayForwarding ==
    /\ [](\A p \in Peers : Cardinality(FromPeer(p)) = Len(peers[p].ingress_app))
    /\ \A p \in Peers :
          (peers[p].st = "connecting")
          ~> (/\ peers[p].st = "live"
              /\ resolve_node(peers[Other(p)].nodes, peers[Other(p)].ips, p) # <<>>)
    /\ \A p \in Peers : \A k \in 1..MaxWrites :
          (peers[p].written >= k) ~> (Cardinality(FromPeer(Other(p))) >= k)

\* NodeC has received NodeA's payload without ever having called connect
C14_AutoRegistered ==
    /\ peers[NodeC].st = "idle"
    /\ FromPeer(NodeC) # {}
    /\ resolve_node(peers[NodeC].nodes, peers[NodeC].ips, NodeA) # <<>>

\* C15: when shutdown has returned and no tear-down is left to run (no
\* connect is in progress and no connection is live), the IdMap holds no
\* row and forward_senders no entry.
C15_ShutdownReleasesIdMap ==
    (/\ last = ShutdownCalled
     /\ \A c \in Conns : conns[c].st # "connecting" /\ ~Live(c))
        => /\ nodes = EmptyMap
           /\ ips = EmptyMap
           /\ forward_senders = EmptyMap

\* C16: once remove_node was called by the application for the NodeId of a
\* live connection, the forwarding task of that connection ends: the
\* engine connection is closed and the notifier fires, whether or not the
\* application still holds its Sender.
C16_RemoveTearsDown ==
    \A c \in 1..MaxConns :
        (c \in Conns /\ conns[c].rm_live)
        ~> (/\ c \in Conns
            /\ conns[c].eng_closed
            /\ conns[c].fired = 1
            /\ conns[c].pc = "done")

\* a is b with some of its elements left out
RECURSIVE IsSubSeq(_, _)
IsSubSeq(a, b) ==
    IF a = <<>> THEN TRUE
    ELSE IF b = <<>> THEN FALSE
    ELSE IF Head(a) = Head(b) THEN IsSubSeq(Tail(a), Tail(b))
    ELSE IsSubSeq(a, Tail(b))

\* the payloads of the Forwarded items of NodeId n on the application
\* channel, in order
DeliveredFrom(n) ==
    LET OfN(item) == item.node_id = n
        items == SelectSeq(ingress_app, OfN)
    IN  [i \in 1..Len(items) |-> items[i].payload]

\* the payloads of the Packet events with n's address the router has
\* taken, in the order the engine yielded them
TakenFrom(n) ==
    LET taken == SubSeq(yielded, 1, Len(yielded) - Len(ingress_rx))
        OfN(event) == event.kind = "Packet" /\ event.remote.addr = to_ipv6(n)
        events == SelectSeq(taken, OfN)
    IN  [i \in 1..Len(events) |-> events[i].payload]

\* C18: for every NodeId, the items delivered to the application channel
\* are, in the same order and without duplicates, Packet events the router
\* has taken from that node's address: the events still waiting are those
\* yielded last, and every item is reliable.
C18_IngressOrder ==
    /\ Len(ingress_rx) <= Len(yielded)
    /\ ingress_rx = SubSeq(yielded, Len(yielded) - Len(ingress_rx) + 1, Len(yielded))
    /\ \A i \in 1..Len(ingress_app) :
          ingress_app[i].reliable /\ ingress_app[i].node_id \in {NodeA, NodeC}
    /\ \A n \in {NodeA, NodeC} : IsSubSeq(DeliveredFrom(n), TakenFrom(n))

\* two packets of NodeA with different payloads were yielded and both were
\* delivered, a packet of NodeC between them
C18_TwoInOrder ==
    /\ Len(ingress_app) = 3
    /\ ingress_rx = <<>>
    /\ DeliveredFrom(NodeA) = <<2, 1>>
    /\ ingress_app[2].node_id = NodeC

\* C19, as claimed: at most one payload written by the application is
\* queued and not yet taken by the forwarding task, and a write made while
\* one is queued leaves the producer blocked.
C19_DepthOne ==
    /\ [](\A c \in Conns : Len(conns[c].q) <= 1)
    /\ [][\A c \in Conns :
            (conns[c].q # <<>> /\ Len(conns'[c].q) > Len(conns[c].q))
                => conns'[c].parked]_vars

\* C19, amended: at most two payloads are queued and not yet taken, the
\* one buffer slot and the slot of the application's Sender; the Sender is
\* blocked exactly while two are queued, a write is accepted only when it
\* is not blocked, and only the task taking a payload unblocks it.
C19_DepthTwo ==
    /\ [](\A c \in Conns :
            /\ Len(conns[c].q) <= 2
            /\ conns[c].parked <=> Len(conns[c].q) = 2)
    /\ [][\A c \in Conns :
            /\ Len(conns'[c].q) > Len(conns[c].q) => ~conns[c].parked
            /\ (conns[c].parked /\ ~conns'[c].parked) =>
                  /\ conns'[c].q = Tail(conns[c].q)
                  /\ conns'[c].cur = <<Head(conns[c].q)>>]_vars

\* two payloads are queued behind the one the task has taken
C19_TwoQueued ==
    \E c \in Conns :
        /\ Len(conns[c].q) = 2
        /\ conns[c].parked
        /\ conns[c].pc = "send"

\* C20: however the critical sections of receive(n) and connect(n)
\* interleave, each add_virt_node leaves exactly one row for n, at n's
\* address, which is the row of the entry just added, with both indices
\* consistent; a step that is neither an add nor a remove leaves the IdMap
\* as it is, so the row is that of the add that executed last.
C20_LastWriterWins ==
    [][/\ \A e \in RaceEntries :
            last' \in {Added(e, TRUE), Added(e, FALSE)} =>
                /\ {ip \in DOMAIN nodes' : nodes'[ip].id = e.id} = {to_ipv6(e.id)}
                /\ nodes'[to_ipv6(e.id)] = VirtNode_try_new(e.id, e.session, e.slot)
                /\ e.id \in DOMAIN ips'
                /\ ips'[e.id] = to_ipv6(e.id)
                /\ C1_IndicesConsistent'
       /\ last' \in {NotAdd, ShutdownCalled} => <<nodes', ips'>> = <<nodes, ips>>]_vars

\* receive found NodeA unknown, connect then added it with session S2, and
\* receive's add, with session S1, has just replaced that row
C20_ReceiveOverConnect ==
    /\ last = Added(NodeEntry(NodeA, "S1", 7), TRUE)
    /\ Len(conns) = 1
    /\ conns[1].node.session = "S2"
    /\ nodes[to_ipv6(NodeA)].session = "S1"

\* C21: a send failure in a background task is not fatal.  A failed
\* net.send of a forwarding task leaves the IdMap, forward_senders and the
\* channel as they are, fires no notifier and leaves the task in its loop,
\* where it takes the next payload; a failed session.send of the egress
\* router changes nothing of the layer and the router takes the next
\* event; the router gives the session a Forward only for an event whose
\* address has a row, built from that row, and none otherwise.
C21_SendFailureNotFatal ==
    /\ [][\A c \in Conns :
            last' = SendFailed(c) =>
                /\ <<nodes', ips', forward_senders'>> = <<nodes, ips, forward_senders>>
                /\ conns'[c].fired = 0
                /\ conns'[c].pc = "get_next"
                /\ conns'[c].q = conns[c].q
                /\ ~conns'[c].eng_closed]_vars
    /\ [][last' = SessionSendFailed =>
            /\ <<nodes', ips', forward_senders', conns'>>
                  = <<nodes, ips, forward_senders, conns>>
            /\ egress_rx' = egress_rx
            /\ egress_cur' = <<>>]_vars
    /\ [][/\ (egress_rx # <<>> /\ egress_rx' = Tail(egress_rx)) =>
                LET egress == Head(egress_rx)
                IN  IF egress.remote \in DOMAIN nodes
                    THEN egress_cur' =
                            <<Forward_new(nodes[egress.remote].session,
                                          nodes[egress.remote].session_slot,
                                          egress.payload)>>
                    ELSE egress_cur' = <<>> /\ session_sends' = session_sends
          /\ session_sends' # session_sends =>
                /\ egress_cur # <<>>
                /\ Len(session_sends') = Len(session_sends) + 1
                /\ session_sends'[Len(session_sends')].forward = egress_cur[1]]_vars
    /\ \A c \in 1..MaxConns :
          (c \in Conns /\ last = SendFailed(c) /\ conns[c].q # <<>>)
          ~> (c \in Conns /\ conns[c].pc = "send")
    /\ \A k \in 0..MaxEvents :
          (last = SessionSendFailed /\ egress_rx # <<>> /\ emitted - Len(egress_rx) = k)
          ~> (emitted - Len(egress_rx) > k)

\* a net.send has just failed with the next payload waiting in the
\* channel; before that a session.send failed and the router sent the next
\* Forward, and it took a frame for an unknown address without sending
C21_WentOnAfterFailure ==
    /\ \E c \in Conns : last = SendFailed(c) /\ Live(c) /\ conns[c].q # <<>>
    /\ Len(session_sends) = 2
    /\ ~session_sends[1].ok
    /\ session_sends[2].ok
    /\ emitted = 3
    /\ egress_rx = <<>>

\* C22: a forwarding task clears the pause cell unconditionally when it
\* resumes: after its sleep, whatever the cell holds by then, and at once
\* when the date it read was not in the future; it sleeps only on a date in
\* the future that it read itself, and a task that reads None goes on to
\* rx.next() without sleeping.  So a later date written during the sleep is
\* erased before it is due.
C22_ResumeClearsPause ==
    [][\A c \in Conns :
          /\ (conns[c].pc = "sleep" /\ conns'[c].pc # "sleep") =>
                /\ paused' = {}
                /\ conns'[c].pc = "recv"
          /\ (conns[c].pc = "get_next" /\ conns'[c].pc # "get_next") =>
                IF paused = {} THEN conns'[c].pc = "recv" /\ paused' = {}
                ELSE IF \A t \in paused : t > now
                THEN conns'[c].pc = "sleep" /\ conns'[c].wake = paused /\ paused' = paused
                ELSE conns'[c].pc = "recv" /\ paused' = {}]_vars

\* one task slept, the session layer wrote a later date meanwhile, the
\* task erased it on waking; another task then read None and holds a
\* payload for the engine, before that date
C22_LaterPauseLost ==
    \E c, d \in Conns :
        /\ c # d
        /\ \E t \in conns[c].erased \cap conns[d].missed : now < t
        /\ paused = {}
        /\ conns[d].pc = "send"

\* C23: every NodeId with an entry in forward_senders has a row in the
\* IdMap: resolve_node returns a row for it, so the egress router can route
\* the frames of the registered connection.
C23_SenderHasRow ==
    \A n \in DOMAIN forward_senders : resolve_node(nodes, ips, n) # <<>>

\* the forwarding task of connection c is in its loop
InLoop(c) == conns[c].pc \in {"get_next", "sleep", "recv", "send"}

\* C24: connections to one NodeId do not interfere.  When the tear-down of
\* one connection runs its remove_node while another connection to the same
\* NodeId is live, its task in the loop and its sender the one stored in
\* forward_senders, that entry and the row of the NodeId stay; and the task
\* of a live connection whose Sender the application holds never leaves
\* its loop.
C24_NoInterference ==
    /\ [][\A c, d \in Conns :
            (/\ c # d
             /\ conns[c].node.id = conns[d].node.id
             /\ conns[c].pc = "remove" /\ conns'[c].pc # "remove"
             /\ Live(d) /\ InLoop(d)
             /\ conns[d].node.id \in DOMAIN forward_senders
             /\ forward_senders[conns[d].node.id] = d)
            => /\ conns[d].node.id \in DOMAIN forward_senders'
               /\ forward_senders'[conns[d].node.id] = d
               /\ resolve_node(nodes', ips', conns[d].node.id) # <<>>
               /\ resolve_node(nodes', ips', conns[d].node.id)
                     = resolve_node(nodes, ips, conns[d].node.id)]_vars
    /\ [](\A d \in Conns : (Live(d) /\ conns[d].app_tx) => InLoop(d))

\* C25: the first event a client stream yields is "connected", and every
\* broadcast call eventually completes: none of its sends is left waiting,
\* and its message was put in the channel of every client of the list whose
\* stream is still open.
C25_SseFanOut ==
    /\ [](\A i \in 1..Len(sse_clients) :
            /\ (sse_clients[i].open /\ sse_clients[i].first = <<>>) =>
                  (sse_clients[i].q # <<>> /\ Head(sse_clients[i].q) = Connected)
            /\ sse_clients[i].first # <<>> => sse_clients[i].first = <<Connected>>)
    /\ \A b \in 1..MaxBroadcasts :
          (b <= Len(sse_bcasts))
          ~> (/\ b <= Len(sse_bcasts)
              /\ sse_bcasts[b].pending = {}
              /\ \A i \in sse_bcasts[b].failed : ~sse_clients[i].open)

=============================================================================
